---- MODULE Spec2Model ----
(***************************************************************************)
(* A model of the quotient filter of Nomon/qf-go (src/qf.go with the slot  *)
(* helpers of src/unnamed/part_000 and uint64Size/maskLower of             *)
(* src/util.go).                                                           *)
(*                                                                         *)
(* A uint64 is modelled as the set of its 1-bits, a subset of 0..63, so    *)
(* that 64-bit wrap-around, shifts that push bits out of the word and      *)
(* masks of 64 bits and more are computed exactly as the Go code computes  *)
(* them.  Shift counts and bit indexes are small naturals.                 *)
(***************************************************************************)
EXTENDS Integers, Sequences, FiniteSets, TLC

VARIABLES
    qf,     \* the QuotientFilter struct: qbits, rbits, esize, len, cap, masks, h
    data,   \* qf.data, the []uint64 slot array
    added,  \* ghost: the keys whose Add returned nil
    op,     \* the last call
    ret,    \* what the last call returned
    arg,    \* ghost: the arguments the constructor was called with
    it,     \* the caller's Iterator value (NoIterator before NewIterator)
    yielded \* ghost: the values Next returned for it, in order

vars == <<qf, data, added, op, ret, arg, it, yielded>>

\* No Iterator has been made.
NoIterator == [nil |-> TRUE]

(***************************************************************************)
(* uint64 arithmetic on sets of bit positions                              *)
(***************************************************************************)
Bit == 0..63

Max(S) == CHOOSE x \in S : \A y \in S : y <= x

\* The lowest position from i on that is in S, and the lowest that is not
\* (64 when there is none).
RECURSIVE LowestIn(_, _)
LowestIn(S, i) == IF i > 63 \/ i \in S THEN i ELSE LowestIn(S, i + 1)

RECURSIVE LowestOut(_, _)
LowestOut(S, i) == IF i > 63 \/ i \notin S THEN i ELSE LowestOut(S, i + 1)

\* The uint64 with value n, for a natural n: bit i of n is put at i0 + i.
RECURSIVE BitsFrom(_, _)
BitsFrom(n, i0) ==
    IF n = 0 THEN {}
    ELSE (IF n % 2 = 1 THEN {i0} ELSE {}) \cup BitsFrom(n \div 2, i0 + 1)

Word(n) == BitsFrom(n, 0)

RECURSIVE SumBits(_)
SumBits(w) == IF w = {} THEN 0 ELSE LET b == Max(w) IN 2^b + SumBits(w \ {b})

\* The natural a uint64 stands for (used only on values below 2^31).
Val(w) == SumBits(w)

\* x << k and x >> k on uint64: bits shifted out are lost, a count of 64 or
\* more gives 0.
Shl(w, k) == {i + k : i \in w} \cap Bit

Shr(w, k) == {i - k : i \in w} \cap Bit

AndW(a, b) == a \cap b

OrW(a, b) == a \cup b

NotW(a) == Bit \ a

\* x - 1 and x + 1 modulo 2^64.
Dec(w) == IF w = {} THEN Bit ELSE LET m == LowestIn(w, 0) IN (w \ {m}) \cup (0..(m - 1))

Inc(w) == LET m == LowestOut(w, 0) IN IF m > 63 THEN {} ELSE (w \ (0..(m - 1))) \cup {m}

\* Two's complement negation of an int64.
Neg(w) == Inc(NotW(w))

\* a < b on uint64.
Less(a, b) == a # b /\ Max((a \ b) \cup (b \ a)) \in b

Uint8(n) == n % 256

(***************************************************************************)
(* util.go                                                                 *)
(***************************************************************************)
\* (1 << e) - 1
maskLower(e) == Dec(Shl({0}, e))

\* bits = (1 << q) * int(r+3) in int (64-bit, wrapping); bytes = bits / 8
\* truncated toward zero, plus one when bits % 8 != 0.  The result is the
\* int in two's complement: bit 63 set means negative.
uint64Size(q, r) ==
    LET bits == Shl(Word(Uint8(r + 3)), q)
        neg == 63 \in bits
        mag == IF neg THEN Neg(bits) ELSE bits
        quo == IF neg THEN Neg(Shr(mag, 3)) ELSE Shr(mag, 3)
    IN IF mag \cap {0, 1, 2} # {} THEN Inc(quo) ELSE quo

(***************************************************************************)
(* The slot helpers                                                        *)
(***************************************************************************)
\* The constants 1, 2, 4 and 7 as words.
W1 == {0}

W2 == {1}

W4 == {2}

W7 == {0, 1, 2}

\* (int64(remainder) << 3) & ^7
newSlot(remainder) == AndW(Shl(remainder, 3), NotW(W7))

isOccupied(s) == AndW(s, W1) = W1

setOccupied(s) == OrW(s, W1)

clearOccupied(s) == AndW(s, NotW(W1))

isContinuation(s) == AndW(s, W2) = W2

setContinuation(s) == OrW(s, W2)

isShifted(s) == AndW(s, W4) = W4

setShifted(s) == OrW(s, W4)

getRemainder(s) == Shr(s, 3)

isEmpty(s) == AndW(s, W7) = {}

isRunStart(s) == isContinuation(s) /\ (isOccupied(s) \/ isShifted(s))

(***************************************************************************)
(* The hasher (hash.Hash64), an external collaborator.  Its state is the   *)
(* sequence of keys written since the last Reset.  A key is a record       *)
(* [hi, quot, idx, qb, rb]: the hasher maps it to the 64-bit sum with      *)
(* remainder Rem(idx, rb) in the low rb bits, quot in the next qb bits and *)
(* hi above them, so that the explored keys collide on quotients, on whole *)
(* fingerprints and (idx 0 against idx 1) on everything but the bits the   *)
(* filter discards.                                                        *)
(***************************************************************************)
NumRems == 2

\* The idx-th remainder of width rb: 1, 1 + 2^(rb-1), 2, 2 + 2^(rb-1), ...
\* idx 0 is remainder 1 again (its key differs in the discarded high bits).
Rem(idx, rb) ==
    IF idx = 0 THEN Word(1)
    ELSE IF idx % 2 = 1 THEN Word((idx + 1) \div 2)
    ELSE OrW(Word(idx \div 2), {rb - 1})

KeySum(k) ==
    OrW(Rem(k.idx, k.rb),
        OrW(Shl(Word(k.quot), k.rb), Shl(Word(k.hi), k.qb + k.rb)))

Xor(a, b) == (a \ b) \cup (b \ a)

RECURSIVE Sum64(_)
Sum64(h) == IF h = <<>> THEN {} ELSE Xor(Sum64(SubSeq(h, 1, Len(h) - 1)), KeySum(h[Len(h)]))

\* The keys explored against a filter of geometry (qb, rb): NumRems
\* remainders for every quotient, and one more key of quotient 0 whose hash
\* differs from that of index 1 above the fingerprint only.
KeysFor(qb, rb) ==
    {[hi |-> 0, quot |-> c, idx |-> i, qb |-> qb, rb |-> rb] :
        c \in 0..(2^qb - 1), i \in 1..NumRems}
    \cup {[hi |-> 1, quot |-> 0, idx |-> 0, qb |-> qb, rb |-> rb]}

(***************************************************************************)
(* qf.go: construction                                                     *)
(***************************************************************************)
\* make([]uint64, n): the runtime panics on a negative length and on one
\* whose bytes exceed the 2^48 address space; the slice is zeroed.  The
\* slice is its length and the set of positions of its 1-bits, word i
\* holding positions 64*i .. 64*i + 63.
MakePanics(n) == n \cap (45..63) # {}

MakeSlice(n) == [size |-> n, bits |-> {}]

\* panic("q + r has to be less than 64 bits") when the uint8 sum exceeds 64
NewPanics(q, r) == Uint8(q + r) > 64

New(q, r) ==
    [qbits |-> q, rbits |-> r, esize |-> Uint8(r + 3),
     len |-> {}, cap |-> Shl({0}, q),
     h |-> <<>>,
     qMask |-> maskLower(q), rMask |-> maskLower(r),
     elemMask |-> maskLower(Uint8(r + 3))]

quotientAndRemainder(f, hv) == <<AndW(Shr(hv, f.rbits), f.qMask), AndW(hv, f.rMask)>>

\* Reset, Write(key), Sum64: the hasher is left holding the key.
hash(f, key) == [h |-> <<key>>, sum |-> Sum64(<<key>>)]

(***************************************************************************)
(* qf.go: the bit-packed slot array.  A value the code keeps in a local    *)
(* variable is a parameter of the operator that models the code after the  *)
(* assignment, so every function of the code is a chain of operators.      *)
(***************************************************************************)
DataWord(d, i) == {p - 64 * i : p \in d.bits \cap ((64 * i)..(64 * i + 63))}

SetDataWord(d, i, w) ==
    [d EXCEPT !.bits = (d.bits \ ((64 * i)..(64 * i + 63))) \cup {64 * i + b : b \in w}]

\* bitOffset, sliceIndex and bitsInNextSlot of a bitIndex
slotAt(f, bitIndex) ==
    [bitIndex |-> bitIndex, sliceIndex |-> bitIndex \div 64,
     bitOffset |-> bitIndex % 64,
     bitsInNextSlot |-> (bitIndex % 64) + f.esize - 64]

\* index is a word; its product with esize stays far below 2^64 here.
slotIndex(f, index) == slotAt(f, f.esize * Val(index))

\* element = (data[sliceIndex] >> bitOffset) & elemMask, and the bits of the
\* next word when the slot spans two
elementAt(f, d, ix) ==
    OrW(AndW(Shr(DataWord(d, ix.sliceIndex), ix.bitOffset), f.elemMask),
        IF ix.bitsInNextSlot > 0
        THEN Shl(AndW(DataWord(d, ix.sliceIndex + 1), maskLower(ix.bitsInNextSlot)),
                 f.esize - ix.bitsInNextSlot)
        ELSE {})

element(f, d, pos) == elementAt(f, d, slotIndex(f, pos))

\* setElement without the write to the next word.
setElementNextNot(f, d, ix, el) == d

\* the write to data[sliceIndex + 1] when the slot spans two words
setElementNext(f, d, ix, el) ==
    IF ix.bitsInNextSlot > 0
    THEN SetDataWord(d, ix.sliceIndex + 1,
             OrW(AndW(DataWord(d, ix.sliceIndex + 1), NotW(maskLower(ix.bitsInNextSlot))),
                 Shr(el, f.esize - ix.bitsInNextSlot)))
    ELSE d

\* the write to data[sliceIndex], el being element & elemMask
setElementAt(f, d, ix, el) ==
    setElementNext(f,
        SetDataWord(d, ix.sliceIndex,
            OrW(AndW(DataWord(d, ix.sliceIndex), NotW(Shl(f.elemMask, ix.bitOffset))),
                Shl(el, ix.bitOffset))),
        ix, el)

setElement(f, d, pos, e) == setElementAt(f, d, slotIndex(f, pos), AndW(e, f.elemMask))

previous(f, pos) == AndW(Dec(pos), f.qMask)

next(f, pos) == AndW(Inc(pos), f.qMask)

(***************************************************************************)
(* qf.go: findRun.  A loop of the code is a recursive operator; Hang is    *)
(* returned once a loop has run more rounds than it has configurations,    *)
(* so that it can only repeat forever (it reads the array and writes       *)
(* nothing).                                                               *)
(***************************************************************************)
\* What a loop that never ends stands for where a position is expected.
Hang == {-1}

Cap(f) == Val(f.cap)

\* findRun with the leftward walk left out: the pairing starts at q.
WalkLeftNot(f, d, pos, fuel) == pos

\* for { if !isShifted(element(pos)) { break }; pos = previous(pos) }
RECURSIVE WalkLeft(_, _, _, _)
WalkLeft(f, d, pos, fuel) ==
    IF ~isShifted(element(f, d, pos)) THEN pos
    ELSE IF fuel = 0 THEN Hang
    ELSE WalkLeft(f, d, previous(f, pos), fuel - 1)

\* findRun whose advance of run stops only at a slot that is not shifted.
NextRunHeadUnshifted(f, d, run, fuel) ==
    IF ~isShifted(element(f, d, run)) THEN run ELSE Hang

\* for { run = next(run); if !isContinuation(element(run)) { break } }, run
\* being already advanced
RECURSIVE NextRunHead(_, _, _, _)
NextRunHead(f, d, run, fuel) ==
    IF ~isContinuation(element(f, d, run)) THEN run
    ELSE IF fuel = 0 THEN Hang
    ELSE NextRunHead(f, d, next(f, run), fuel - 1)

\* for { pos = next(pos); if isOccupied(element(pos)) { break } }, pos being
\* already advanced
RECURSIVE NextOccupied(_, _, _, _)
NextOccupied(f, d, pos, fuel) ==
    IF isOccupied(element(f, d, pos)) THEN pos
    ELSE IF fuel = 0 THEN Hang
    ELSE NextOccupied(f, d, next(f, pos), fuel - 1)

\* for pos != q { advance run to the next run head; advance pos to the next
\* occupied marker }
RECURSIVE PairRuns(_, _, _, _, _, _)
PairRuns(f, d, run, pos, q, fuel) ==
    IF run = Hang \/ pos = Hang THEN Hang
    ELSE IF pos = q THEN run
    ELSE IF fuel = 0 THEN Hang
    ELSE PairRuns(f, d, NextRunHead(f, d, next(f, run), Cap(f)),
                  NextOccupied(f, d, next(f, pos), Cap(f)), q, fuel - 1)

\* run = pos after the leftward walk
findRunFrom(f, d, start, q) == PairRuns(f, d, start, start, q, Cap(f) * Cap(f))

findRun(f, d, q) == findRunFrom(f, d, WalkLeft(f, d, q, Cap(f)), q)

(***************************************************************************)
(* qf.go: Contains                                                         *)
(***************************************************************************)
Returns(v) == [ret |-> v, hang |-> FALSE]

NeverReturns == [ret |-> FALSE, hang |-> TRUE]

\* One round of the scan, remainder being getRemainder(element(start))
RECURSIVE ContainsScan(_, _, _, _, _)
ContainsStep(f, d, start, r, remainder, fuel) ==
    IF remainder = r THEN Returns(TRUE)
    ELSE IF Less(r, remainder) THEN Returns(FALSE)
    ELSE IF ~isContinuation(element(f, d, next(f, start))) THEN Returns(FALSE)
    ELSE IF fuel = 0 THEN NeverReturns
    ELSE ContainsScan(f, d, next(f, start), r, fuel - 1)

\* The scan of the run from start: what Contains returns, or that it never
\* returns.
ContainsScan(f, d, start, r, fuel) ==
    ContainsStep(f, d, start, r, getRemainder(element(f, d, start)), fuel)

\* start := qf.findRun(q) and the scan
ContainsRun(f, d, r, start) ==
    IF start = Hang THEN NeverReturns ELSE ContainsScan(f, d, start, r, Cap(f))

\* q, r := qf.quotientAndRemainder(h) and the rest of Contains
ContainsFingerprint(f, d, qr) ==
    IF ~isOccupied(element(f, d, qr[1])) THEN Returns(FALSE)
    ELSE ContainsRun(f, d, qr[2], findRun(f, d, qr[1]))

\* The value returned, or that the call hangs; the hasher is left as hash
\* leaves it.
Contains(f, d, key) == ContainsFingerprint(f, d, quotientAndRemainder(f, hash(f, key).sum))

(***************************************************************************)
(* qf.go: insert and Add                                                   *)
(***************************************************************************)
\* The shift-right cascade from pos with cur in hand: the array it leaves,
\* and hang when no empty slot ends it.  fuel is the number of further
\* slots the loop may visit: with cap slots visited and none empty, every
\* slot holds an entry and the loop goes round for ever.
RECURSIVE insert(_, _, _, _, _)
\* cur = prev; pos = next(pos); the loop again
insertNext(f, d, pos, prev, fuel) ==
    IF fuel = 0 THEN [d |-> d, hang |-> TRUE]
    ELSE insert(f, d, next(f, pos), prev, fuel - 1)

\* insert without the break: it writes into the empty slot and goes on.
insertOverNoBreak(f, d, pos, cur, prev, fuel) ==
    insertNext(f, setElement(f, d, pos, cur), pos, setShifted(prev), fuel)

\* insert that leaves the is_occupied marker on the entry it moves.
insertOverMarkerMoves(f, d, pos, cur, prev, fuel) ==
    IF isEmpty(prev) THEN [d |-> setElement(f, d, pos, cur), hang |-> FALSE]
    ELSE insertNext(f, setElement(f, d, pos, cur), pos, setShifted(prev), fuel)

\* One round of the loop, prev being element(pos)
insertOver(f, d, pos, cur, prev, fuel) ==
    IF isEmpty(prev) THEN [d |-> setElement(f, d, pos, cur), hang |-> FALSE]
    ELSE IF isOccupied(setShifted(prev))
    THEN insertNext(f, setElement(f, d, pos, setOccupied(cur)), pos,
                    clearOccupied(setShifted(prev)), fuel)
    ELSE insertNext(f, setElement(f, d, pos, cur), pos, setShifted(prev), fuel)

insert(f, d, pos, cur, fuel) == insertOver(f, d, pos, cur, element(f, d, pos), fuel)

\* One round of the scan of Add, rem being getRemainder(element(s))
RECURSIVE AddScan(_, _, _, _, _)
AddScanStep(f, d, s, r, rem, fuel) ==
    IF r = rem THEN [dup |-> TRUE, hang |-> FALSE, s |-> s]
    ELSE IF Less(r, rem) THEN [dup |-> FALSE, hang |-> FALSE, s |-> s]
    ELSE IF ~isContinuation(element(f, d, next(f, s)))
         THEN [dup |-> FALSE, hang |-> FALSE, s |-> next(f, s)]
    ELSE IF fuel = 0 THEN [dup |-> FALSE, hang |-> TRUE, s |-> s]
    ELSE AddScan(f, d, next(f, s), r, fuel - 1)

\* The scan of Add over the run from s: where it stops, and whether it
\* found the remainder (dup) or cannot stop (hang).
AddScan(f, d, s, r, fuel) == AddScanStep(f, d, s, r, getRemainder(element(f, d, s)), fuel)

\* The result of Add: the struct and the array as the call leaves them, and
\* the error returned ("nil", "ErrFull"), or "hang" when the call never
\* returns.
Fail(f, d, e) == [f |-> f, d |-> d, err |-> e]

\* qf.len++; return nil
Grown(f, d) == Fail([f EXCEPT !.len = Inc(f.len)], d, "nil")

\* Add that never sets is_shifted on the new entry.
neverShifted(entry, s, q) == entry

\* if s != q { entry = setShifted(entry) }
shiftedAt(entry, s, q) == IF s # q THEN setShifted(entry) ELSE entry

\* after qf.insert(s, entry)
AddInserted(f, ins) == IF ins.hang THEN Fail(f, ins.d, "hang") ELSE Grown(f, ins.d)

\* after the scan of an occupied quotient's run
AddScanned(f, d, q, entry, start, sc) ==
    IF sc.hang THEN Fail(f, d, "hang")
    ELSE IF sc.dup THEN Fail(f, d, "nil")
    ELSE IF sc.s = start
    THEN AddInserted(f,
            insert(f, setElement(f, d, start, setContinuation(element(f, d, start))),
                   sc.s, shiftedAt(entry, sc.s, q), Cap(f) - 1))
    ELSE AddInserted(f,
            insert(f, d, sc.s, shiftedAt(setContinuation(entry), sc.s, q), Cap(f) - 1))

\* after start := qf.findRun(q); occ is isOccupied(elem)
AddToRun(f, d, q, r, occ, entry, start) ==
    IF start = Hang THEN Fail(f, d, "hang")
    ELSE IF occ THEN AddScanned(f, d, q, entry, start, AddScan(f, d, start, r, Cap(f)))
    ELSE AddInserted(f, insert(f, d, start, shiftedAt(entry, start, q), Cap(f) - 1))

\* after if !isOccupied(elem) { qf.setElement(q, setOccupied(elem)) }
AddMarked(f, d, q, r, occ, entry) == AddToRun(f, d, q, r, occ, entry, findRun(f, d, q))

\* after elem := qf.element(q) and entry := uint64((int64(r) << 3) & int64(^7))
AddEntry(f, d, q, r, elem, entry) ==
    IF isEmpty(elem) THEN Grown(f, setElement(f, d, q, setOccupied(entry)))
    ELSE AddMarked(f,
            IF ~isOccupied(elem) THEN setElement(f, d, q, setOccupied(elem)) ELSE d,
            q, r, isOccupied(elem), entry)

\* after q, r := qf.quotientAndRemainder(h)
AddFingerprint(f, d, qr) ==
    AddEntry(f, d, qr[1], qr[2], element(f, d, qr[1]), AndW(Shl(qr[2], 3), NotW(W7)))

\* after h := qf.hash(key), which leaves the hasher holding the key
AddHashed(f, d, hs) ==
    AddFingerprint([f EXCEPT !.h = hs.h], d, quotientAndRemainder(f, hs.sum))

\* Add with the capacity check off by one: if qf.len > qf.cap.
AddOffByOne(f, d, key) ==
    IF Less(f.cap, f.len) THEN Fail(f, d, "ErrFull") ELSE AddHashed(f, d, hash(f, key))

\* if qf.len >= qf.cap { return ErrFull }, then the rest of Add
Add(f, d, key) ==
    IF ~Less(f.len, f.cap) THEN Fail(f, d, "ErrFull") ELSE AddHashed(f, d, hash(f, key))

\* for _, k := range keys { if err := Add(k); err != nil { return err } }
\* done lists the keys whose Add was called and returned nil.
RECURSIVE AddAll(_, _, _)
\* one is what Add returned for the first key
AddAllAfter(one, keys) ==
    IF one.err # "nil" THEN [f |-> one.f, d |-> one.d, err |-> one.err, done |-> <<>>]
    ELSE [AddAll(one.f, one.d, Tail(keys)) EXCEPT !.done = <<Head(keys)>> \o @]

AddAll(f, d, keys) ==
    IF keys = <<>> THEN [f |-> f, d |-> d, err |-> "nil", done |-> <<>>]
    ELSE AddAllAfter(Add(f, d, Head(keys)), keys)

(***************************************************************************)
(* qf.go: Delete (unfinished in the source)                                *)
(***************************************************************************)
\* What Delete leaves and returns: the hasher, the array, the value, or that
\* the call never returns.
DeleteResult(h, d, v, hang) == [h |-> h, d |-> d, ret |-> v, hang |-> hang]

\* One round of the scan of Delete, rem being getRemainder(element(pos)):
\* the position it stops at and the remainder it last read; early is the
\* `return true` inside the loop.
RECURSIVE DeleteScan(_, _, _, _, _)
DeleteScanStep(f, d, pos, r, rem, fuel) ==
    IF rem = r THEN [pos |-> pos, rem |-> rem, early |-> FALSE, hang |-> FALSE]
    ELSE IF Less(r, rem) THEN [pos |-> pos, rem |-> rem, early |-> TRUE, hang |-> FALSE]
    ELSE IF ~isContinuation(element(f, d, next(f, pos)))
         THEN [pos |-> next(f, pos), rem |-> rem, early |-> FALSE, hang |-> FALSE]
    ELSE IF fuel = 0 THEN [pos |-> pos, rem |-> rem, early |-> FALSE, hang |-> TRUE]
    ELSE DeleteScan(f, d, next(f, pos), r, fuel - 1)

DeleteScan(f, d, pos, r, fuel) ==
    DeleteScanStep(f, d, pos, r, getRemainder(element(f, d, pos)), fuel)

\* Delete that clears the marker of the quotient instead of setting it.
DeleteMarkCleared(f, d, q, elem) == setElement(f, d, q, clearOccupied(elem))

\* elem = setOccupied(elem); qf.setElement(q, elem)
DeleteMark(f, d, q, elem) == setElement(f, d, q, setOccupied(elem))

\* after kill is chosen: if isRunStart(kill) and the next slot continues no
\* run, the marker of q is written; return true
DeleteKill(f, d, h, q, elem, pos, kill) ==
    IF isRunStart(kill) /\ ~isContinuation(element(f, d, next(f, pos)))
    THEN DeleteResult(h, DeleteMark(f, d, q, elem), TRUE, FALSE)
    ELSE DeleteResult(h, d, TRUE, FALSE)

\* after the scan: if rem != r { return true }
DeleteScanned(f, d, h, q, r, elem, sc) ==
    IF sc.hang THEN DeleteResult(h, d, FALSE, TRUE)
    ELSE IF sc.early \/ sc.rem # r THEN DeleteResult(h, d, TRUE, FALSE)
    ELSE DeleteKill(f, d, h, q, elem, sc.pos,
                    IF sc.pos = q THEN elem ELSE element(f, d, sc.pos))

\* after start := qf.findRun(q)
DeleteRun(f, d, h, q, r, elem, start) ==
    IF start = Hang THEN DeleteResult(h, d, FALSE, TRUE)
    ELSE DeleteScanned(f, d, h, q, r, elem, DeleteScan(f, d, start, r, Cap(f)))

\* after elem := qf.element(q)
DeleteEntry(f, d, h, q, r, elem) ==
    IF ~isOccupied(elem) \/ f.len = {} THEN DeleteResult(h, d, FALSE, FALSE)
    ELSE DeleteRun(f, d, h, q, r, elem, findRun(f, d, q))

\* after q, r := qf.quotientAndRemainder(h)
DeleteFingerprint(f, d, h, qr) == DeleteEntry(f, d, h, qr[1], qr[2], element(f, d, qr[1]))

\* after h := qf.hash(key), which leaves the hasher holding the key
DeleteHashed(f, d, hs) == DeleteFingerprint(f, d, hs.h, quotientAndRemainder(f, hs.sum))

Delete(f, d, key) == DeleteHashed(f, d, hash(f, key))

(***************************************************************************)
(* The filter under use: construction by New, then any calls.              *)
(***************************************************************************)
\* The geometries explored: slot 3 of (2, 14) straddles words 0 and 1; the
\* slots of (1, 63) are wider than a word.
Params == {<<2, 14>>, <<1, 63>>}

Keys == KeysFor(qf.qbits, qf.rbits)

\* The batches passed to AddAll: up to two keys of quotient 0.
BatchKeys == {k \in Keys : k.quot = 0}

Batches == {<<>>} \cup {<<a>> : a \in BatchKeys} \cup {<<a, b>> : a \in BatchKeys, b \in BatchKeys}

\* The state New(q, r) returns, for a (q, r) of P.
InitOn(P) ==
    \E p \in P :
        /\ ~NewPanics(p[1], p[2])
        /\ ~MakePanics(uint64Size(p[1], p[2]))
        /\ qf = New(p[1], p[2])
        /\ data = MakeSlice(uint64Size(p[1], p[2]))
        /\ added = {}
        /\ op = "New"
        /\ ret = "ok"
        /\ arg = p
        /\ it = NoIterator
        /\ yielded = <<>>

Init == InitOn(Params)

\* A call that never returns leaves the program inside it: ret is "hang" and
\* no further call is made.
DoAdd(key) ==
    /\ ret # "hang"
    /\ \E res \in {Add(qf, data, key)} :
        /\ qf' = res.f
        /\ data' = res.d
        /\ added' = IF res.err = "nil" THEN added \cup {key} ELSE added
        /\ op' = "Add"
        /\ ret' = res.err
    /\ UNCHANGED <<arg, it, yielded>>

DoAddAll(keys) ==
    /\ ret # "hang"
    /\ \E res \in {AddAll(qf, data, keys)} :
        /\ qf' = res.f
        /\ data' = res.d
        /\ added' = added \cup {res.done[i] : i \in 1..Len(res.done)}
        /\ op' = "AddAll"
        /\ ret' = res.err
    /\ UNCHANGED <<arg, it, yielded>>

DoContains(key) ==
    /\ ret # "hang"
    /\ \E res \in {Contains(qf, data, key)} :
        /\ qf' = [qf EXCEPT !.h = hash(qf, key).h]
        /\ op' = "Contains"
        /\ ret' = IF res.hang THEN "hang" ELSE IF res.ret THEN "true" ELSE "false"
    /\ UNCHANGED <<data, added, arg, it, yielded>>

Next ==
    \/ \E key \in Keys : DoAdd(key)
    \/ \E keys \in Batches : DoAddAll(keys)
    \/ \E key \in Keys : DoContains(key)

Spec == Init /\ [][Next]_vars

\* The same calls on the geometries whose slot fits a 64-bit word.
InitFit == InitOn({p \in Params : p[2] + 3 <= 64})

SpecFit == InitFit /\ [][Next]_vars

(***************************************************************************)
(* What the ghost records, as the filter sees it                           *)
(***************************************************************************)
\* The (quotient, remainder) pair Add and Contains derive from a key.
Fingerprint(k) == quotientAndRemainder(qf, hash(qf, k).sum)

AddedFingerprints == {Fingerprint(k) : k \in added}

\* The positions of the slots that are not empty.
NonEmptySlots == {i \in 0..(Cap(qf) - 1) : ~isEmpty(element(qf, data, Word(i)))}

\* The filter refuses further keys: qf.len >= qf.cap.
Full == ~Less(qf.len, qf.cap)

(***************************************************************************)
(* Add, Contains and AddAll (claims C1 to C7)                              *)
(***************************************************************************)
\* C1: no false negatives.  In every state reached by Adds from the empty
\* filter, Contains returns true for every key whose Add returned nil.
NoFalseNegatives == \A k \in added : Contains(qf, data, k) = Returns(TRUE)

\* C2: Contains is exact on fingerprints.  In every reachable state
\* Contains(k) returns true exactly when the (quotient, remainder) pair of k
\* is the pair of some key whose Add returned nil.
ContainsExact ==
    \A k \in Keys : Contains(qf, data, k) = Returns(Fingerprint(k) \in AddedFingerprints)

\* C3: Add returns ErrFull exactly when len >= cap holds at entry, and then
\* leaves the slot array and len unchanged; when len < cap at entry it
\* returns nil.
AddFullExactly ==
    [][op' = "Add" =>
          /\ (ret' = "ErrFull") <=> Full
          /\ Full => (data' = data /\ qf'.len = qf.len)
          /\ ~Full => ret' = "nil"]_vars

\* C3 happens: an Add has been refused by a full filter.
AddRefused == op = "Add" /\ ret = "ErrFull" /\ qf.len = qf.cap /\ Cap(qf) > 1

\* C4: the filter can be filled completely.  While fewer than 2^q distinct
\* fingerprints are stored, an Add of a new fingerprint returns nil and
\* makes len the number stored; once 2^q are stored the next Add returns
\* ErrFull.
FillsCompletely ==
    \A k \in Keys :
        Fingerprint(k) \notin AddedFingerprints =>
            \E res \in {Add(qf, data, k)} :
                IF Cardinality(AddedFingerprints) < Cap(qf)
                THEN res.err = "nil" /\ Val(res.f.len) = Cardinality(AddedFingerprints) + 1
                ELSE res.err = "ErrFull"

\* C5: Add is idempotent.  In every reachable state Add(k) for a key whose
\* fingerprint is already stored leaves len and every slot as they were.
AddIdempotent ==
    \A k \in Keys :
        Fingerprint(k) \in AddedFingerprints =>
            \E res \in {Add(qf, data, k)} : res.d = data /\ res.f.len = qf.len

\* C6: in every reachable state len is the number of non-empty slots and
\* the number of distinct fingerprints among the keys whose Add returned
\* nil, and 0 <= len <= cap.
LenCountsFingerprints ==
    /\ Val(qf.len) = Cardinality(NonEmptySlots)
    /\ Val(qf.len) = Cardinality(AddedFingerprints)
    /\ Val(qf.len) <= Cap(qf)

\* C7: AddAll adds the keys in order and stops at the first Add that fails.
\* It returns that Add's error, every key before it is added and reported
\* by Contains, the state is the one that Add left, and no later key is
\* processed; when no Add fails it returns nil with every key added.
AddAllStopsAtFirstError ==
    \A keys \in Batches :
        \E res \in {AddAll(qf, data, keys)} :
            \E n \in {Len(res.done)} :
                /\ n <= Len(keys)
                /\ res.done = SubSeq(keys, 1, n)
                /\ (res.err = "nil") <=> (n = Len(keys))
                /\ \A i \in 1..n : Contains(res.f, res.d, keys[i]) = Returns(TRUE)
                /\ n < Len(keys) =>
                      \E before \in {AddAll(qf, data, res.done)} :
                          \E one \in {Add(before.f, before.d, keys[n + 1])} :
                              /\ before.err = "nil"
                              /\ one.err = "ErrFull"
                              /\ res.f = one.f /\ res.d = one.d /\ res.err = one.err

(***************************************************************************)
(* Construction: one call of a constructor with any arguments              *)
(***************************************************************************)
\* The largest uint8: q and r range over 0..MaxUint8.
MaxUint8 == 255

\* The capacities and the probabilities 1/1 .. 1/MaxInvP explored.
MaxCapacity == 12

MaxInvP == 9

\* math.Ceil(math.Log2(float64(n))) for an int n >= 1: the least k with
\* 2^k >= n (math.Log2 is exact on powers of two).
RECURSIVE CeilLog2From(_, _)
CeilLog2From(n, k) == IF 2^k >= n THEN k ELSE CeilLog2From(n, k + 1)

CeilLog2(n) == CeilLog2From(n, 0)

\* uint8(-math.Log2(1/n)) for n >= 1: the conversion truncates, giving the
\* greatest k with 2^k <= n.
RECURSIVE FloorLog2From(_, _)
FloorLog2From(n, k) == IF 2^(k + 1) > n THEN k ELSE FloorLog2From(n, k + 1)

FloorLog2(n) == FloorLog2From(n, 0)

\* qf.go: NewPropability(capacity, 1/invp) calls New with these q and r.
NewPropability(capacity, invp) == <<Uint8(CeilLog2(capacity)), Uint8(FloorLog2(invp))>>

\* unnamed/part_000: its NewPropability sizes for capacity * 2.
NewPropabilityDoubled(capacity, invp) ==
    <<Uint8(CeilLog2(capacity * 2)), Uint8(FloorLog2(invp))>>

\* No filter yet: the pointer is nil and so is the slice.
NoFilter == [nil |-> TRUE]

InitNew ==
    /\ qf = NoFilter
    /\ data = MakeSlice({})
    /\ added = {}
    /\ op = "none"
    /\ ret = "none"
    /\ arg = <<>>
    /\ it = NoIterator
    /\ yielded = <<>>

\* New(q, r) called as `name` with the arguments `args`: it panics on its
\* own check or inside make, or returns the filter.
CallNew(name, args, q, r) ==
    /\ op = "none"
    /\ op' = name
    /\ arg' = args
    /\ IF NewPanics(q, r) THEN ret' = "panic: q + r" /\ UNCHANGED <<qf, data>>
       ELSE IF MakePanics(uint64Size(q, r)) THEN ret' = "panic: makeslice" /\ UNCHANGED <<qf, data>>
       ELSE /\ ret' = "ok"
            /\ qf' = New(q, r)
            /\ data' = MakeSlice(uint64Size(q, r))
    /\ UNCHANGED <<added, it, yielded>>

\* The guard op = "none" (nothing constructed yet) is CallNew's; it is
\* repeated ahead of the choice of arguments.
DoNew ==
    /\ op = "none"
    /\ \E q \in 0..MaxUint8, r \in 0..MaxUint8 : CallNew("New", <<q, r>>, q, r)

DoNewPropability ==
    /\ op = "none"
    /\ \E capacity \in 1..MaxCapacity, invp \in 1..MaxInvP :
          \E qr \in {NewPropability(capacity, invp)} :
              CallNew("NewPropability", <<capacity, invp>>, qr[1], qr[2])

DoNewPropabilityDoubled ==
    /\ op = "none"
    /\ \E capacity \in 1..MaxCapacity, invp \in 1..MaxInvP :
          \E qr \in {NewPropabilityDoubled(capacity, invp)} :
              CallNew("NewPropabilityDoubled", <<capacity, invp>>, qr[1], qr[2])

NextNew == DoNew \/ DoNewPropability \/ DoNewPropabilityDoubled

SpecNew == InitNew /\ [][NextNew]_vars

(***************************************************************************)
(* The constructors (claims C8 to C10)                                     *)
(***************************************************************************)
\* C8: New(q, r) fails for every 8-bit q and r with q = 0, or r = 0, or
\* q + r > 64, and succeeds only when 1 <= q, 1 <= r and q + r <= 64.
NewRejectsBadParameters ==
    (op = "New" /\ ret = "ok") => (1 <= arg[1] /\ 1 <= arg[2] /\ arg[1] + arg[2] <= 64)

\* C9: the capacity/probability constructor sizes the filter at double the
\* requested capacity: for every capacity >= 1 it chooses
\* q = ceil(log2(2 * capacity)), so that 2^q is at least 2 * capacity.
SizedAtDoubleCapacity ==
    (op \in {"NewPropability", "NewPropabilityDoubled"} /\ ret = "ok") =>
        (qf.qbits = CeilLog2(2 * arg[1]) /\ Cap(qf) >= 2 * arg[1])

\* C10: for every requested capacity >= 1 the filter NewPropability returns
\* has strictly more slots than the requested capacity.
CapExceedsCapacity == (op = "NewPropability" /\ ret = "ok") => Cap(qf) > arg[1]

\* What the constructor of unnamed/part_000 alone guarantees.
DoubledSizedAtDoubleCapacity ==
    (op = "NewPropabilityDoubled" /\ ret = "ok") =>
        (qf.qbits = CeilLog2(2 * arg[1]) /\ Cap(qf) > arg[1] /\ Cap(qf) >= 2 * arg[1])

\* ceil(2^q * (r + 3) / 64) as a word, computed without overflow: the bits
\* of r + 3 moved up by q and down by 6, plus one when a bit falls off.
CeilWords(q, r) ==
    IF \E b \in Word(r + 3) : b + q < 6
    THEN Inc({b + q - 6 : b \in {x \in Word(r + 3) : x + q >= 6}})
    ELSE {b + q - 6 : b \in Word(r + 3)}

\* C22: New(q, r) allocates data as exactly ceil(2^q * (r + 3) / 64) 64-bit
\* words, all zero, for every (q, r) it accepts.
AllocatesExactWords ==
    (op = "New" /\ ret = "ok") => data = MakeSlice(CeilWords(arg[1], arg[2]))

(***************************************************************************)
(* unnamed/part_001: the Iterator.  HasNext and Next have value receivers: *)
(* each call works on a copy of the caller's Iterator, so what Next        *)
(* assigns to visited, index and quotient is lost when it returns.         *)
(***************************************************************************)
isClusterStart(s) == isOccupied(s) /\ ~isContinuation(s) /\ ~isShifted(s)

\* Iterator{qf: qf}: visited, index and quotient are zero.
NewIterator(f) == [visited |-> {}, index |-> {}, quotient |-> {}]

\* uint64(i.visited) < i.qf.len
HasNext(i, f) == Less(i.visited, f.len)

\* i.quotient after the slot at i.index is classified (Hang when the search
\* for the next occupied slot never ends)
IteratorQuotient(f, d, i, slot) ==
    IF isClusterStart(slot) THEN i.index
    ELSE IF isRunStart(slot) THEN NextOccupied(f, d, next(f, i.quotient), Cap(f))
    ELSE i.quotient

\* One round of the loop of Next on the copy i: the copy as Next leaves it,
\* the value returned, or hang when no round returns.
RECURSIVE IteratorNext(_, _, _, _)
IteratorRound(f, d, i, slot, quot, fuel) ==
    IF quot = Hang THEN [it |-> i, val |-> {}, hang |-> TRUE]
    ELSE IF ~isEmpty(slot)
    THEN [it |-> [visited |-> Inc(i.visited), index |-> next(f, i.index), quotient |-> quot],
          val |-> OrW(Shl(quot, f.rbits), getRemainder(slot)), hang |-> FALSE]
    ELSE IF fuel = 0 THEN [it |-> i, val |-> {}, hang |-> TRUE]
    ELSE IteratorNext(f, d, [i EXCEPT !.index = next(f, i.index), !.quotient = quot], fuel - 1)

IteratorSlot(f, d, i, slot, fuel) ==
    IteratorRound(f, d, i, slot, IteratorQuotient(f, d, i, slot), fuel)

IteratorNext(f, d, i, fuel) == IteratorSlot(f, d, i, element(f, d, i.index), fuel)

(***************************************************************************)
(* Iteration: a filter is filled by Adds, then an Iterator is made and     *)
(* HasNext and Next are called on it while the filter stays as it is.      *)
(***************************************************************************)
\* The Next calls explored on one Iterator.
MaxNext == 3

IterAdd(key) == it = NoIterator /\ DoAdd(key)

DoNewIterator ==
    /\ ret # "hang"
    /\ it = NoIterator
    /\ it' = NewIterator(qf)
    /\ op' = "NewIterator"
    /\ ret' = "ok"
    /\ UNCHANGED <<qf, data, added, arg, yielded>>

DoHasNext ==
    /\ ret # "hang"
    /\ it # NoIterator
    /\ op' = "HasNext"
    /\ ret' = IF HasNext(it, qf) THEN "true" ELSE "false"
    /\ UNCHANGED <<qf, data, added, arg, it, yielded>>

\* it.Next(): the receiver is a copy, so it stays as it was.
DoIteratorNext ==
    /\ ret # "hang"
    /\ it # NoIterator
    /\ Len(yielded) < MaxNext
    /\ \E res \in {IteratorNext(qf, data, it, Cap(qf))} :
          /\ op' = "Next"
          /\ ret' = IF res.hang THEN "hang" ELSE "ok"
          /\ yielded' = IF res.hang THEN yielded ELSE Append(yielded, res.val)
    /\ UNCHANGED <<qf, data, added, arg, it>>

NextIter ==
    \/ \E key \in Keys : IterAdd(key)
    \/ DoNewIterator
    \/ DoHasNext
    \/ DoIteratorNext

SpecIter == Init /\ [][NextIter]_vars

SpecIterFit == InitFit /\ [][NextIter]_vars

\* The value Next is to yield for a key: (quotient << r) | remainder.
FingerprintValue(k) == OrW(Shl(Fingerprint(k)[1], qf.rbits), Fingerprint(k)[2])

\* C11: iteration is finite and has length len.  On a filter holding len
\* fingerprints, HasNext is true while fewer than len Next calls have been
\* made on the Iterator and false from then on; on an empty filter it is
\* false at once.
IterationHasLengthLen ==
    it # NoIterator => (HasNext(it, qf) <=> Len(yielded) < Val(qf.len))

\* C12: iteration round-trips the stored set.  Once len Next calls have been
\* made, the values yielded are the stored fingerprints
\* (quotient << r) | remainder, each exactly once, so the value of every
\* added key is among them.
IterationRoundTrips ==
    (it # NoIterator /\ Len(yielded) = Val(qf.len)) =>
        /\ {yielded[n] : n \in 1..Len(yielded)} = {FingerprintValue(k) : k \in added}
        /\ \A m, n \in 1..Len(yielded) : yielded[m] = yielded[n] => m = n

(***************************************************************************)
(* NewHash and the two copies of hash.  qf.go resets the hasher before it  *)
(* writes the key; unnamed/part_000 writes the key to the hasher as it     *)
(* stands and resets it on return (defer qf.h.Reset()).                    *)
(***************************************************************************)
\* qf := New(q, r); qf.h = h
NewHash(h, q, r) == [New(q, r) EXCEPT !.h = h]

\* part_000: defer Reset; Write(key); Sum64
hashDeferred(f, key) == [h |-> <<>>, sum |-> Sum64(Append(f.h, key))]

AddDeferred(f, d, key) ==
    IF ~Less(f.len, f.cap) THEN Fail(f, d, "ErrFull") ELSE AddHashed(f, d, hashDeferred(f, key))

ContainsDeferred(f, d, key) ==
    ContainsFingerprint(f, d, quotientAndRemainder(f, hashDeferred(f, key).sum))

\* The geometry of the filters made by NewHash.
HashParams == <<2, 14>>

\* The hashers handed to NewHash: a fresh one, and one for every key of
\* quotient 1 that was written to it before.
Hashers == {<<>>} \cup {<<k>> : k \in {x \in KeysFor(HashParams[1], HashParams[2]) : x.quot = 1}}

\* The state NewHash(h, q, r) returns.
InitHash ==
    \E h \in Hashers :
        /\ qf = NewHash(h, HashParams[1], HashParams[2])
        /\ data = MakeSlice(uint64Size(HashParams[1], HashParams[2]))
        /\ added = {}
        /\ op = "NewHash"
        /\ ret = "ok"
        /\ arg = h
        /\ it = NoIterator
        /\ yielded = <<>>

DoAddDeferred(key) ==
    /\ ret # "hang"
    /\ \E res \in {AddDeferred(qf, data, key)} :
        /\ qf' = res.f
        /\ data' = res.d
        /\ added' = IF res.err = "nil" THEN added \cup {key} ELSE added
        /\ op' = "Add"
        /\ ret' = res.err
    /\ UNCHANGED <<arg, it, yielded>>

DoContainsDeferred(key) ==
    /\ ret # "hang"
    /\ \E res \in {ContainsDeferred(qf, data, key)} :
        /\ qf' = [qf EXCEPT !.h = hashDeferred(qf, key).h]
        /\ op' = "Contains"
        /\ ret' = IF res.hang THEN "hang" ELSE IF res.ret THEN "true" ELSE "false"
    /\ UNCHANGED <<data, added, arg, it, yielded>>

NextHash ==
    \/ \E key \in Keys : DoAddDeferred(key)
    \/ \E key \in Keys : DoContainsDeferred(key)

\* NewHash, then Add and Contains with the hash of part_000.
SpecHash == InitHash /\ [][NextHash]_vars

NextHashReset ==
    \/ \E key \in Keys : DoAdd(key)
    \/ \E key \in Keys : DoContains(key)

\* NewHash, then Add and Contains with the hash of qf.go.
SpecHashReset == InitHash /\ [][NextHashReset]_vars

\* C13: the hash the filter computes for a key is a function of the key
\* bytes alone.  In every reachable state, whatever the hasher held when it
\* was handed to NewHash and whatever calls were made since, the hash of
\* every key is the digest of that key written to a fresh hasher, so every
\* key whose Add returned nil is found by Contains.
HashOfKeyAlone ==
    /\ \A k \in Keys : hashDeferred(qf, k).sum = Sum64(<<k>>)
    /\ \A k \in added : ContainsDeferred(qf, data, k) = Returns(TRUE)

\* The same of the hash of qf.go.
HashResetOfKeyAlone ==
    /\ \A k \in Keys : hash(qf, k).sum = Sum64(<<k>>)
    /\ \A k \in added : Contains(qf, data, k) = Returns(TRUE)

(***************************************************************************)
(* The slot array read as clusters and runs.  Positions are numbers here   *)
(* and s is the array of the slots, s[i] the slot at position i.           *)
(***************************************************************************)
Positions == 0..(Cap(qf) - 1)

Slots == [i \in Positions |-> element(qf, data, Word(i))]

\* The slot d positions after position i, around the end of the array.
SlotAfter(s, i, d) == s[(i + d) % Cap(qf)]

NonEmpty(s, i) == ~isEmpty(s[i])

\* The length of the cluster that starts at c, n slots of it counted: it
\* ends with the whole array, before an empty slot, or before the start of
\* another cluster.
RECURSIVE ClusterLenFrom(_, _, _)
ClusterLenFrom(s, c, n) ==
    IF n = Cap(qf) \/ isEmpty(SlotAfter(s, c, n)) \/ isClusterStart(SlotAfter(s, c, n))
    THEN n
    ELSE ClusterLenFrom(s, c, n + 1)

ClusterLen(s, c) == ClusterLenFrom(s, c, 1)

ClusterStarts(s) == {c \in Positions : isClusterStart(s[c])}

\* The offsets within the cluster at c of its is_occupied markers and of
\* the first slots of its runs.
MarkerOffsets(s, c) == {j \in 0..(ClusterLen(s, c) - 1) : isOccupied(SlotAfter(s, c, j))}

RunOffsets(s, c) == {j \in 0..(ClusterLen(s, c) - 1) : ~isContinuation(SlotAfter(s, c, j))}

\* The slot at offset j of the cluster at c lies in the run of this number.
RunNumber(s, c, j) == Cardinality({x \in RunOffsets(s, c) : x <= j})

\* The offsets of the k-th marker of a cluster whose markers are at ms.
KthMarker(ms, k) == {o \in ms : Cardinality({x \in ms : x <= o}) = k}

\* The quotient of the k-th run of the cluster at c: the position of its
\* k-th marker (-1 if it has none).
RunQuotient(s, c, k) ==
    IF KthMarker(MarkerOffsets(s, c), k) = {} THEN -1
    ELSE (c + (CHOOSE o \in KthMarker(MarkerOffsets(s, c), k) : TRUE)) % Cap(qf)

\* The clusters the slot at i lies in, each with the offset of i in it.
ClustersOf(s, i) ==
    {cj \in ClusterStarts(s) \X Positions :
        cj[2] < ClusterLen(s, cj[1]) /\ (cj[1] + cj[2]) % Cap(qf) = i}

QuotientIn(s, cj) == RunQuotient(s, cj[1], RunNumber(s, cj[1], cj[2]))

\* The quotient of the fingerprint in the slot at i (-1 if the slot lies in
\* no cluster).
QuotientAt(s, i) ==
    IF ClustersOf(s, i) = {} THEN -1 ELSE QuotientIn(s, CHOOSE cj \in ClustersOf(s, i) : TRUE)

\* The quotients of the keys added.
AddedQuotients == {Val(Fingerprint(k)[1]) : k \in added}

\* The positions of the first slots of the runs.
RunStarts(s) == {i \in Positions : NonEmpty(s, i) /\ ~isContinuation(s[i])}

\* C15: within every run the remainders are strictly ascending, without
\* duplicates.  A slot that continues a run holds a larger remainder than
\* the slot before it.
RunsStrictlyAscending ==
    \A s \in {Slots} : \A i \in Positions :
        (NonEmpty(s, i) /\ isContinuation(SlotAfter(s, i, 1))) =>
            Less(getRemainder(s[i]), getRemainder(SlotAfter(s, i, 1)))

\* A run of two entries or more is stored.
RunOfTwo ==
    \E s \in {Slots} : \E i \in Positions : NonEmpty(s, i) /\ isContinuation(SlotAfter(s, i, 1))

\* C16: in every cluster the number of is_occupied markers equals the
\* number of runs and the position of the k-th marker is the quotient of
\* the k-th run; is_occupied is set at i exactly when a stored fingerprint
\* has quotient i.
MarkersMatchRuns ==
    \A s \in {Slots} :
        /\ \A c \in ClusterStarts(s) :
               Cardinality(MarkerOffsets(s, c)) = Cardinality(RunOffsets(s, c))
        /\ \A i \in Positions : isOccupied(s[i]) <=> i \in AddedQuotients
        /\ {QuotientAt(s, i) : i \in RunStarts(s)} = AddedQuotients
        /\ Cardinality(RunStarts(s)) = Cardinality(AddedQuotients)

\* A cluster of two runs is stored.
ClusterOfTwoRuns ==
    \E s \in {Slots} : \E c \in ClusterStarts(s) : Cardinality(RunOffsets(s, c)) >= 2

\* C17: a non-empty slot at i has is_shifted set exactly when the quotient
\* of its fingerprint is not i, and the first slot of every cluster has
\* is_shifted clear.
ShiftedIffDisplaced ==
    \A s \in {Slots} : \A i \in Positions : NonEmpty(s, i) =>
        /\ isShifted(s[i]) <=> QuotientAt(s, i) # i
        /\ isEmpty(SlotAfter(s, i, Cap(qf) - 1)) => ~isShifted(s[i])

\* An entry is stored away from its quotient's slot.
DisplacedEntry ==
    \E s \in {Slots} : \E i \in Positions : NonEmpty(s, i) /\ isShifted(s[i])

\* C18: for every quotient q whose is_occupied marker is set, findRun(q)
\* returns the position of the first slot of q's run: the slot with
\* is_continuation clear whose fingerprint has quotient q, also when the
\* cluster wraps from the last slot onto slot 0.
FindRunFindsRunStart ==
    \A s \in {Slots} : \A q \in Positions : isOccupied(s[q]) =>
        \E run \in {findRun(qf, data, Word(q))} :
            /\ run # Hang
            /\ \E i \in RunStarts(s) : run = Word(i) /\ QuotientAt(s, i) = q

\* A run whose first slot lies before its quotient's slot: its cluster
\* wraps from the last slot onto slot 0.
WrappedRun ==
    \E s \in {Slots} : \E q \in Positions :
        /\ isOccupied(s[q])
        /\ \E run \in {findRun(qf, data, Word(q))} : run # Hang /\ Less(run, Word(q))

NextAdd == \E key \in Keys : DoAdd(key)

\* Construction by New, then Adds only.
SpecAdd == Init /\ [][NextAdd]_vars

\* The number of steps from position p forward to position e.
Dist(p, e) == (e - p + Cap(qf)) % Cap(qf)

\* C19: the shift-right cascade of insert terminates whenever Add is called
\* with len < cap, and it stops after writing into the first empty slot,
\* having visited at most cap slots.  The call returns; if it stored an
\* entry, one slot that was empty holds an entry afterwards, every other
\* empty slot is still empty, and no empty slot lies between a slot the
\* call changed and the slot it filled.
InsertStopsAtFirstEmpty ==
    [][(op' = "Add" /\ ~Full) =>
          /\ ret' = "nil"
          /\ qf'.len # qf.len =>
                \A s \in {Slots} : \A t \in {Slots'} :
                    \E e \in Positions :
                        /\ isEmpty(s[e]) /\ ~isEmpty(t[e])
                        /\ \A p \in Positions \ {e} : isEmpty(t[p]) <=> isEmpty(s[p])
                        /\ \A p \in Positions : t[p] # s[p] =>
                               \A j \in 0..(Cap(qf) - 1) :
                                   j < Dist(p, e) => ~isEmpty(SlotAfter(s, p, j))]_vars

\* An Add filled the last empty slot of a filter that is one single run: it
\* went through insert, which moved or appended an entry of the run.
InsertFilledTheRun ==
    /\ op = "Add" /\ ret = "nil" /\ Full
    /\ Cardinality(RunStarts(Slots)) = 1

\* C20: Contains terminates for every key in every reachable state, the
\* completely full filter included.
ContainsTerminates == \A k \in Keys : ~Contains(qf, data, k).hang

\* Contains was called on a completely full filter.
ContainsOnFull == op = "Contains" /\ Full /\ ret # "hang"

(***************************************************************************)
(* setElement and element on their own: a filter is made by New and any    *)
(* slot is written with any value.                                         *)
(***************************************************************************)
\* The geometries explored: slot 3 of (2, 14) straddles words 0 and 1; the
\* slots of (1, 62) and (1, 63) are wider than a word.
SlotParams == {<<2, 14>>, <<1, 62>>, <<1, 63>>}

\* The values written: zero, the lowest and the highest bit of a slot of
\* esize bits (of a word, when the slot is wider), and all 64 bits.
SlotValues(esize) == {{}, {0, IF esize > 64 THEN 63 ELSE esize - 1}, 0..63}

\* v masked to r + 3 bits.
MaskedToSlot(f, v) == v \cap (0..(f.rbits + 2))

DoSetElement(pos, v) ==
    /\ data' = setElement(qf, data, Word(pos), v)
    /\ op' = "setElement"
    /\ ret' = "ok"
    /\ arg' = <<pos, v>>
    /\ UNCHANGED <<qf, added, it, yielded>>

NextSlots == \E pos \in Positions : \E v \in SlotValues(qf.esize) : DoSetElement(pos, v)

InitSlots == InitOn(SlotParams)

SpecSlots == InitSlots /\ [][NextSlots]_vars

\* C21: the write of one slot touches exactly that slot.  After
\* setElement(i, v), element(i) is v masked to r + 3 bits and element(j) is
\* what it was for every other j, also when slot i straddles two words.
SetElementTouchesOneSlot ==
    [][op' = "setElement" =>
          \A s \in {Slots} : \A t \in {Slots'} :
              /\ t[arg'[1]] = MaskedToSlot(qf, arg'[2])
              /\ \A j \in Positions \ {arg'[1]} : t[j] = s[j]]_vars

\* A slot that straddles two words was written with bits in both, next to
\* a slot that holds a value.
StraddlingSlotWritten ==
    /\ op = "setElement"
    /\ slotIndex(qf, Word(arg[1])).bitsInNextSlot > 0
    /\ arg[2] = 0..63
    /\ \E j \in Positions \ {arg[1]} : Slots[j] # {}

\* C23: across any sequence of Adds every slot goes from empty to occupied
\* at its canonical position and then possibly to shifted or continuation:
\* the first content an empty slot receives is an unshifted entry that
\* continues no run and has is_occupied set, and a slot that is not empty
\* never becomes empty again.
SlotLifecycle ==
    [][data' # data => \A s \in {Slots} : \A t \in {Slots'} : \A i \in Positions :
          /\ (isEmpty(s[i]) /\ ~isEmpty(t[i])) => isClusterStart(t[i])
          /\ ~isEmpty(s[i]) => ~isEmpty(t[i])]_vars

\* C23 as the code has it: the first content an empty slot receives is
\* either an unshifted entry that continues no run and has is_occupied set
\* (Add found the slot of the quotient empty) or an entry with is_shifted
\* set and is_occupied clear (insert filled the first empty slot); a slot
\* that is not empty never becomes empty again.
SlotLifecycleWithShifted ==
    [][data' # data => \A s \in {Slots} : \A t \in {Slots'} : \A i \in Positions :
          /\ (isEmpty(s[i]) /\ ~isEmpty(t[i])) =>
                 (isClusterStart(t[i]) \/ (isShifted(t[i]) /\ ~isOccupied(t[i])))
          /\ ~isEmpty(s[i]) => ~isEmpty(t[i])]_vars

\* An Add stored an entry away from its quotient's slot, and the slot of
\* another quotient was filled while empty.
ShiftedArrival ==
    /\ op = "Add" /\ ret = "nil"
    /\ \E i \in Positions : isShifted(Slots[i]) /\ ~isOccupied(Slots[i])
    /\ \E i \in Positions : isClusterStart(Slots[i])

(***************************************************************************)
(* Delete: a filter is filled by Adds and keys are deleted in between.     *)
(***************************************************************************)
DoDelete(key) ==
    /\ ret # "hang"
    /\ \E res \in {Delete(qf, data, key)} :
        /\ qf' = [qf EXCEPT !.h = res.h]
        /\ data' = res.d
        /\ op' = "Delete"
        /\ ret' = IF res.hang THEN "hang" ELSE IF res.ret THEN "true" ELSE "false"
    /\ UNCHANGED <<added, arg, it, yielded>>

NextDelete ==
    \/ \E key \in Keys : DoAdd(key)
    \/ \E key \in Keys : DoDelete(key)

SpecDelete == Init /\ [][NextDelete]_vars

\* C24: Delete never changes the filter.  Whatever Delete(key) returns,
\* every slot and len are as they were, so every Contains answers as it did
\* before, Contains(key) for the deleted key included.
DeleteChangesNothing ==
    [][op' = "Delete" =>
          /\ data' = data
          /\ qf'.len = qf.len
          /\ \A k \in Keys : Contains(qf', data', k) = Contains(qf, data, k)]_vars

\* Delete returned true for a key that was added (the hasher still holds
\* the key), and the key is still reported by Contains.
DeletedKeyStillContained ==
    /\ op = "Delete" /\ ret = "true"
    /\ qf.h[1] \in added
    /\ Contains(qf, data, qf.h[1]) = Returns(TRUE)

\* Add(b) on what Add(a) left
AddAfter(one, b) == Add(one.f, one.d, b)

\* Add(a); Add(b)
AddTwo(f, d, a, b) == AddAfter(Add(f, d, a), b)

\* Adds only, on the geometries whose slot fits a 64-bit word.
SpecAddFit == InitFit /\ [][NextAdd]_vars

\* At least two slots are free: len + 2 <= cap.
TwoFree == Val(qf.len) + 2 <= Cap(qf)

\* C25: the stored state does not depend on insertion order.  In every
\* reachable state with at least two free slots, for any two keys a and b,
\* Add(a); Add(b) and Add(b); Add(a) end with the same slot array and the
\* same len.
AddOrderIndependent ==
    TwoFree =>
        \A a \in Keys : \A b \in Keys :
            \E ab \in {AddTwo(qf, data, a, b)} : \E ba \in {AddTwo(qf, data, b, a)} :
                ab.d = ba.d /\ ab.f.len = ba.f.len

(***************************************************************************)
(* newSlot and remainder through the slot array: a filter is made by New   *)
(* and entries built by newSlot are written and read back.                 *)
(***************************************************************************)
\* The geometries explored: r = 61 is the widest remainder whose slot fits
\* a word.
RemainderParams == {<<2, 14>>, <<1, 61>>, <<1, 62>>, <<1, 63>>}

\* The remainders x < 2^r stored: the lowest bit, the highest, the one
\* below it, both ends, and all r bits.
RemainderValues(r) == {{0}, {r - 1}, {r - 2}, {0, r - 1}, 0..(r - 1)}

InitRemainder == InitOn(RemainderParams)

\* setSlot(pos, newSlot(x)), then getSlot(pos).remainder(); arg records x
\* and the remainder read back.
DoNewSlot(pos, x) ==
    /\ data' = setElement(qf, data, Word(pos), newSlot(x))
    /\ op' = "newSlot"
    /\ ret' = "ok"
    /\ arg' = <<x, getRemainder(element(qf, setElement(qf, data, Word(pos), newSlot(x)), Word(pos)))>>
    /\ UNCHANGED <<qf, added, it, yielded>>

NextRemainder == \E pos \in Positions : \E x \in RemainderValues(qf.rbits) : DoNewSlot(pos, x)

SpecRemainder == InitRemainder /\ [][NextRemainder]_vars

\* C26: a slot holds the full remainder for every pair (q, r) New accepts.
\* For every x below 2^r, remainder(newSlot(x)) is x and the value is read
\* back from the slot array as it was written.
SlotHoldsFullRemainder ==
    op = "newSlot" => (getRemainder(newSlot(arg[1])) = arg[1] /\ arg[2] = arg[1])

\* The same for the geometries with r + 3 <= 64.
FitSlotHoldsFullRemainder ==
    (op = "newSlot" /\ qf.rbits + 3 <= 64) =>
        (getRemainder(newSlot(arg[1])) = arg[1] /\ arg[2] = arg[1])

(***************************************************************************)
(* isRunStart on the slots of a filter: slots are written with every       *)
(* combination of the three metadata bits and asked whether they start a   *)
(* run.                                                                    *)
(***************************************************************************)
RunStartParams == {<<1, 14>>}

\* The slot values written: the eight combinations of the metadata bits,
\* with remainder 0 and with remainder 1.
FlagValues == {OrW(fl, rem) : fl \in SUBSET W7, rem \in {{}, {3}}}

InitRunStart == InitOn(RunStartParams)

DoSetSlot(pos, s) ==
    /\ data' = setElement(qf, data, Word(pos), s)
    /\ op' = "setSlot"
    /\ ret' = "ok"
    /\ UNCHANGED <<qf, added, arg, it, yielded>>

\* getSlot(pos).isRunStart(); arg records pos.
DoIsRunStart(pos) ==
    /\ op' = "isRunStart"
    /\ ret' = IF isRunStart(element(qf, data, Word(pos))) THEN "true" ELSE "false"
    /\ arg' = pos
    /\ UNCHANGED <<qf, data, added, it, yielded>>

NextRunStart ==
    \/ \E pos \in Positions : \E s \in FlagValues : DoSetSlot(pos, s)
    \/ \E pos \in Positions : DoIsRunStart(pos)

SpecRunStart == InitRunStart /\ [][NextRunStart]_vars

\* C27: for every slot value, isRunStart is true exactly when
\* is_continuation is clear and at least one of is_occupied and is_shifted
\* is set.
IsRunStartExact ==
    op = "isRunStart" =>
        \A s \in {element(qf, data, Word(arg))} :
            (ret = "true") <=> (~isContinuation(s) /\ (isOccupied(s) \/ isShifted(s)))

\* No call of the explored behaviours fails to return.
NoHang == ret # "hang"

====
